---------------------------- MODULE Spec2Model ----------------------------
(***************************************************************************)
(* gitwatcher (src/main.go): a supervisor that polls the tip commit of the *)
(* tracked branch and, on a change, spawns runDeploy, which cancels the    *)
(* previous deploy, kills the previous deploy command's process group,     *)
(* publishes a new cancellable context and then loops pull / launch /      *)
(* back off.                                                               *)
(*                                                                         *)
(* One action per statement group of check() and runDeploy(), plus the     *)
(* steps of what the code starts and cannot control: the deploy command    *)
(* (it forks, it exits), the goroutine exec.CommandContext runs to kill    *)
(* the leader on cancellation, and the OS handing out a reaped pid again.  *)
(***************************************************************************)
EXTENDS Naturals, Sequences, FiniteSets

\* ------------------------------------------------------------------ bounds
\* runDeploy goroutines the model lets check() spawn
MaxRuns == 2
\* exec.Cmd values for the deploy command the model lets the runners create
MaxCmds == 2

Runs == 1..MaxRuns
Cmds == 1..MaxCmds

\* ------------------------------------------------------------------ inputs
\* The ways one poll can end: the early returns of check(), a decoded
\* payload, or the URL built at line 76 not parsing ("badURL": a branch or
\* remote name with a "%" that starts no escape), for which http.NewRequest
\* returns a nil request and its error, which line 77 drops.
PollOutcomes ==
    {"branchErr", "repoErr", "badURL", "requestErr", "badStatus", "decodeErr",
     "ok"}

\* The "sha" field of a decoded payload, as a sequence of characters: two
\* hashes, with and without white space around them, and the empty string a
\* payload without the field decodes to.
RawSHAs == { <<>>, <<"a">>, <<" ", "a">>, <<"d", "\n">> }

Space == {" ", "\n"}

RECURSIVE TrimLeft(_)
TrimLeft(s) ==
    IF s # <<>> /\ Head(s) \in Space THEN TrimLeft(Tail(s)) ELSE s

RECURSIVE TrimRight(_)
TrimRight(s) ==
    IF s # <<>> /\ s[Len(s)] \in Space
    THEN TrimRight(SubSeq(s, 1, Len(s) - 1))
    ELSE s

\* strings.TrimSpace
TrimSpace(s) == TrimRight(TrimLeft(s))

\* ------------------------------------------------------------------- state
VARIABLES
    lastSHA,        \* var lastSHA string
    poll,           \* check()'s locals in its latest call: whether the poll
                    \* got to a decoded payload, and the payload's sha
    spawned,        \* number of `go runDeploy()` executed so far
    panicked,       \* main's goroutine has panicked: the program is gone
    mu,             \* sync.Mutex: 0 free, else the runDeploy holding it
    deployCtx,      \* var deployCtx: 0 nil, else the lifetime's id
    deployCancel,   \* var deployCancel: 0 nil, else the lifetime it cancels
    deployProcess,  \* var deployProcess: 0 nil, else the exec.Cmd's id
    cancelled,      \* the lifetimes whose cancel function has been called
    cancelAt,       \* per lifetime: where the runDeploy that created it was
                    \* when line 117 cancelled it, for as long as it stays
                    \* there ("-" before, "gone" after)
    pub,            \* the lifetimes in the order line 128 stored them
    pc,             \* where each runDeploy goroutine is
    view,           \* per runDeploy: the oldest store to deployCtx (an index
                    \* of pub) an unlocked read of it may still return
    pullCtx,        \* per runDeploy: the lifetime its git pull is bound to
    cmd,            \* per runDeploy: its local cmd (0 before the first and
                    \* once the goroutine has returned)
    td,             \* per runDeploy, while it holds mu: what lines 119-127
                    \* found and did
    nCmds,          \* exec.Cmd values created so far
    cmdCtx,         \* per exec.Cmd: the lifetime CommandContext bound it to
    owner,          \* per exec.Cmd: the runDeploy that created it
    proc,           \* per exec.Cmd: Process and the leader's OS state
    kids,           \* per exec.Cmd: descendants alive in the leader's group
    exit,           \* per exec.Cmd: how the leader ended, until a Wait
                    \* collects it
    waited,         \* per exec.Cmd: ProcessState # nil (a Wait has collected
                    \* the leader's status)
    ctxResult,      \* per exec.Cmd: the channel Start makes for the goroutine
                    \* watching the context; that goroutine sends on it once
    pidReused       \* the pid of the registered handle's leader, reaped,
                    \* names a process the supervisor did not start

vars ==
    << lastSHA, poll, spawned, panicked, mu, deployCtx, deployCancel, deployProcess,
       cancelled, cancelAt, pub, pc, view, pullCtx, cmd, td, nCmds, cmdCtx, owner,
       proc, kids, exit, waited, ctxResult, pidReused >>

checkVars == << lastSHA, poll, spawned, panicked >>
sharedVars == << mu, deployCtx, deployCancel, deployProcess, cancelled, pub >>
runVars == << view, pullCtx, cmd, td >>
cmdVars == << nCmds, cmdCtx, owner, proc, kids, exit, waited, ctxResult >>
osVars == << pidReused >>

\* td: saw is the state lines 119-121 found the registered handle in, sig
\* what line 123 signalled, waited and paused whether lines 125 and 126 ran
NoTeardown ==
    [saw |-> "-", sig |-> "-", waited |-> FALSE, paused |-> FALSE]

Init ==
    /\ lastSHA = <<>>
    /\ poll = [outcome |-> "none", sha |-> <<>>]
    /\ spawned = 0
    /\ panicked = FALSE
    /\ mu = 0
    /\ deployCtx = 0
    /\ deployCancel = 0
    /\ deployProcess = 0
    /\ cancelled = {}
    /\ cancelAt = [i \in Runs |-> "-"]
    /\ pub = <<>>
    /\ pc = [i \in Runs |-> "idle"]
    /\ view = [i \in Runs |-> 0]
    /\ pullCtx = [i \in Runs |-> 0]
    /\ cmd = [i \in Runs |-> 0]
    /\ td = [i \in Runs |-> NoTeardown]
    /\ nCmds = 0
    /\ cmdCtx = [c \in Cmds |-> 0]
    /\ owner = [c \in Cmds |-> 0]
    /\ proc = [c \in Cmds |-> "unset"]
    /\ kids = [c \in Cmds |-> FALSE]
    /\ exit = [c \in Cmds |-> "-"]
    /\ waited = [c \in Cmds |-> FALSE]
    /\ ctxResult = [c \in Cmds |-> "-"]
    /\ pidReused = FALSE

Terminal == {"cancelled", "done"}

\* a process of the tree launched for c is running
TreeAlive(c) == proc[c] = "alive" \/ kids[c]

\* cancelAt follows every step: it records where a runDeploy is when its
\* lifetime is cancelled and forgets it when that runDeploy moves on
TrackCancel ==
    cancelAt' =
        [k \in Runs |->
            IF k \in cancelled' \ cancelled THEN pc[k]
            ELSE IF cancelAt[k] # "-" /\ pc'[k] # pc[k] THEN "gone"
            ELSE cancelAt[k]]


\* ----------------------------------------------------------------- check()
\* (mutant of Changed: the comparison of line 103 is left out)
ChangedAlways(currentSHA) == TRUE

\* line 103, negated: the decoded hash is a change
Changed(currentSHA) == currentSHA # lastSHA

\* lines 77-78: req.Header.Set on the nil request NewRequest returns for a
\* URL that does not parse is a nil dereference; the panic ends the program
NilRequest(o) == o = "badURL"

\* check(), lines 63-111, for one poll: o is how the poll ended and raw the
\* payload's sha field.  Only main's goroutine touches lastSHA, and check()
\* neither locks nor waits, so one call is one step.
Check(o, raw) ==
    LET currentSHA == TrimSpace(raw) IN
    /\ ~panicked
    /\ panicked' = NilRequest(o)
    /\ IF o # "ok"
       THEN /\ poll' = [outcome |-> IF NilRequest(o) THEN "panic" ELSE "err",
                        sha |-> <<>>]
            /\ UNCHANGED << lastSHA, spawned, pc >>
       ELSE /\ poll' = [outcome |-> "ok", sha |-> raw]
            /\ IF Changed(currentSHA)
               THEN /\ spawned < MaxRuns
                    /\ lastSHA' = currentSHA
                    /\ spawned' = spawned + 1
                    /\ pc' = [pc EXCEPT ![spawned + 1] = "lock"]
               ELSE UNCHANGED << lastSHA, spawned, pc >>

Poll ==
    /\ \/ \E o \in PollOutcomes \ {"ok"} : Check(o, <<>>)
       \/ \E raw \in RawSHAs : Check("ok", raw)
    /\ UNCHANGED << sharedVars, runVars, cmdVars, osVars >>
    /\ TrackCancel

\* ------------------------------------------------- runDeploy(): teardown
\* (mutant of CancelPrev: the previous lifetime is replaced uncancelled)
CancelPrevSkipped == cancelled

\* lines 115-118: the cancel function of the current lifetime, if any, is
\* called
CancelPrev ==
    IF deployCancel # 0 THEN cancelled \cup {deployCancel} ELSE cancelled

\* lines 114-118
Lock(j) ==
    /\ ~panicked
    /\ pc[j] = "lock"
    /\ mu = 0
    /\ mu' = j
    /\ cancelled' = CancelPrev
    /\ pc' = [pc EXCEPT ![j] = "kill"]
    /\ UNCHANGED << checkVars, deployCtx, deployCancel, deployProcess, pub,
                    runVars, cmdVars, osVars >>
    /\ TrackCancel

\* (mutant of HasProcess: the test of cmd.Process is left out)
HasProcessAnyHandle(d) == d # 0

\* line 119: a handle is registered and its process was started
HasProcess(d) == d # 0 /\ proc[d] # "unset"

\* line 121: Getpgid finds a process with the leader's pid. A leader that
\* was reaped has no entry left; its pid may name another process by then.
GetpgidOf(d) ==
    IF proc[d] \in {"alive", "zombie"} THEN "own"
    ELSE IF pidReused THEN "stray"
    ELSE "ESRCH"

\* the state lines 119-121 find the registered handle in
Saw(d) ==
    IF d = 0 THEN "nil"
    ELSE IF proc[d] = "unset" THEN "unstarted"
    ELSE proc[d]

\* lines 119-124
Kill(j) ==
    LET d == deployProcess IN
    /\ ~panicked
    /\ pc[j] = "kill"
    /\ IF ~HasProcess(d)
       THEN /\ td' = [td EXCEPT ![j].saw = Saw(d), ![j].sig = "none"]
            /\ pc' = [pc EXCEPT ![j] = "publish"]
            /\ UNCHANGED << proc, kids, exit >>
       ELSE /\ td' = [td EXCEPT ![j].saw = Saw(d),
                                ![j].sig =
                                    CASE GetpgidOf(d) = "own" -> "group"
                                      [] GetpgidOf(d) = "stray" -> "stray"
                                      [] OTHER -> "none"]
            /\ pc' = [pc EXCEPT ![j] = "wait"]
            /\ IF GetpgidOf(d) = "own"
               THEN /\ proc' = [proc EXCEPT ![d] = "zombie"]
                    /\ exit' = [exit EXCEPT ![d] =
                                 IF proc[d] = "alive" THEN "killed" ELSE @]
                    /\ kids' = [kids EXCEPT ![d] = FALSE]
               ELSE UNCHANGED << proc, kids, exit >>
    /\ UNCHANGED << checkVars, sharedVars, view, pullCtx, cmd, nCmds, cmdCtx,
                    owner, waited, ctxResult, osVars >>
    /\ TrackCancel

\* line 125, Cmd.Wait on the previous handle, up to the return of
\* Process.Wait. Cmd.Wait returns at once for a process never started and
\* when a Wait has collected the status before (ProcessState # nil).
\* Otherwise Process.Wait returns when the leader is gone, with its status if
\* this call reaped it and with an error if another did, ProcessState is set
\* to what it returned, and Cmd.Wait goes on to receive from ctxResult.
WaitPrev(j) ==
    LET d == deployProcess IN
    /\ ~panicked
    /\ pc[j] = "wait"
    /\ waited[d] \/ proc[d] # "alive"
    /\ IF waited[d] \/ proc[d] = "unset"
       THEN /\ pc' = [pc EXCEPT ![j] = "pause"]
            /\ UNCHANGED << proc, exit, waited >>
       ELSE /\ pc' = [pc EXCEPT ![j] = "tdrecv"]
            /\ proc' = [proc EXCEPT ![d] = "reaped"]
            /\ exit' = [exit EXCEPT ![d] = "-"]
            /\ waited' = [waited EXCEPT ![d] = (proc[d] = "zombie")]
    /\ td' = [td EXCEPT ![j].waited = TRUE]
    /\ UNCHANGED << checkVars, sharedVars, view, pullCtx, cmd, nCmds, cmdCtx,
                    owner, kids, ctxResult, osVars >>
    /\ TrackCancel

\* line 125, the rest of Cmd.Wait: the receive from ctxResult. The watching
\* goroutine sends one value, so the receive blocks for good when another
\* Wait on the same handle has taken it.
TdRecv(j) ==
    LET d == deployProcess IN
    /\ ~panicked
    /\ pc[j] = "tdrecv"
    /\ ctxResult[d] = "pending"
    /\ ctxResult' = [ctxResult EXCEPT ![d] = "taken"]
    /\ pc' = [pc EXCEPT ![j] = "pause"]
    /\ UNCHANGED << checkVars, sharedVars, runVars, nCmds, cmdCtx, owner,
                    proc, kids, exit, waited, osVars >>
    /\ TrackCancel

\* (mutant of Pause: the sleep for the port is left out)
PauseSkipped(j) ==
    /\ ~panicked
    /\ pc[j] = "pause"
    /\ pc' = [pc EXCEPT ![j] = "publish"]
    /\ UNCHANGED << checkVars, sharedVars, runVars, cmdVars, osVars >>
    /\ TrackCancel

\* (mutant of Pause: mu is released for the length of the sleep)
PauseReleasesMu(j) ==
    /\ ~panicked
    /\ pc[j] = "pause"
    /\ td' = [td EXCEPT ![j].paused = TRUE]
    /\ pc' = [pc EXCEPT ![j] = "publish"]
    /\ mu' = 0
    /\ UNCHANGED << checkVars, deployCtx, deployCancel, deployProcess,
                    cancelled, pub, view, pullCtx, cmd, cmdVars, osVars >>
    /\ TrackCancel

\* line 126
Pause(j) ==
    /\ ~panicked
    /\ pc[j] = "pause"
    /\ td' = [td EXCEPT ![j].paused = TRUE]
    /\ pc' = [pc EXCEPT ![j] = "publish"]
    /\ UNCHANGED << checkVars, sharedVars, view, pullCtx, cmd, cmdVars,
                    osVars >>
    /\ TrackCancel

\* lines 128-129: the new lifetime is stored in the globals and mu released
Publish(j) ==
    /\ ~panicked
    /\ pc[j] = "publish"
    /\ deployCtx' = j
    /\ deployCancel' = j
    /\ pub' = Append(pub, j)
    /\ mu' = 0
    /\ view' = [view EXCEPT ![j] = Len(pub) + 1]
    /\ pc' = [pc EXCEPT ![j] = "top"]
    /\ td' = [td EXCEPT ![j] = NoTeardown]
    /\ UNCHANGED << checkVars, deployProcess, cancelled, pullCtx, cmd,
                    cmdVars, osVars >>
    /\ TrackCancel

\* ----------------------------------------------- runDeploy(): retry loop
\* The stores to deployCtx an unlocked read by goroutine i may return: the
\* global is read at lines 133, 139 and 145 without mu, so a read is ordered
\* only after the stores i has synchronised with (its own, and those before
\* its latest acquisition of mu) and after what i read before.
Readable(i) == view[i] .. Len(pub)

\* lines 132-136: the select on deployCtx.Done()
Select(i) ==
    \E k \in Readable(i) :
        /\ IF pub[k] \in cancelled
           THEN /\ pc' = [pc EXCEPT ![i] = "cancelled"]
                /\ view' = [view EXCEPT ![i] = 0]
                /\ cmd' = [cmd EXCEPT ![i] = 0]
           ELSE /\ pc' = [pc EXCEPT ![i] = "pull"]
                /\ view' = [view EXCEPT ![i] = k]
                /\ UNCHANGED cmd
        /\ UNCHANGED << checkVars, sharedVars, pullCtx, td, cmdVars, osVars >>
        /\ TrackCancel

\* the first pass through line 132
TopTest(i) == pc[i] = "top" /\ ~panicked /\ Select(i)

\* (mutant of BackoffEnd: the retry goes straight to the launch)
BackoffEndSkipsPull(i) ==
    /\ ~panicked
    /\ pc[i] = "backoff"
    /\ pc' = [pc EXCEPT ![i] = "mkcmd"]
    /\ UNCHANGED << checkVars, sharedVars, runVars, cmdVars, osVars >>
    /\ TrackCancel

\* lines 141-142 and 156-157: time.Sleep(retryDelay) returns and `continue`
\* leads to the select
BackoffEnd(i) == pc[i] = "backoff" /\ ~panicked /\ Select(i)

\* line 139, the start of `git pull`: Run fails at once on a lifetime that is
\* already cancelled
PullStart(i) ==
    /\ ~panicked
    /\ pc[i] = "pull"
    /\ \E k \in Readable(i) :
        /\ view' = [view EXCEPT ![i] = k]
        /\ IF pub[k] \in cancelled
           THEN /\ pc' = [pc EXCEPT ![i] = "backoff"]
                /\ UNCHANGED pullCtx
           ELSE /\ pc' = [pc EXCEPT ![i] = "pulling"]
                /\ pullCtx' = [pullCtx EXCEPT ![i] = pub[k]]
    /\ UNCHANGED << checkVars, sharedVars, cmd, td, cmdVars, osVars >>
    /\ TrackCancel

\* lines 139-143, the end of `git pull`: it succeeded, or it failed (on its
\* own, or killed because its lifetime was cancelled)
PullEnd(i, ok) ==
    /\ ~panicked
    /\ pc[i] = "pulling"
    /\ pc' = [pc EXCEPT ![i] = IF ok THEN "mkcmd" ELSE "backoff"]
    /\ pullCtx' = [pullCtx EXCEPT ![i] = 0]
    /\ UNCHANGED << checkVars, sharedVars, view, cmd, td, cmdVars, osVars >>
    /\ TrackCancel

\* lines 145-148
MkCmd(i) ==
    /\ ~panicked
    /\ pc[i] = "mkcmd"
    /\ nCmds < MaxCmds
    /\ \E k \in Readable(i) :
        /\ view' = [view EXCEPT ![i] = k]
        /\ cmdCtx' = [cmdCtx EXCEPT ![nCmds + 1] = pub[k]]
    /\ nCmds' = nCmds + 1
    /\ owner' = [owner EXCEPT ![nCmds + 1] = i]
    /\ cmd' = [cmd EXCEPT ![i] = nCmds + 1]
    /\ pc' = [pc EXCEPT ![i] = "reg"]
    /\ UNCHANGED << checkVars, sharedVars, pullCtx, td, proc, kids, exit,
                    waited, ctxResult, osVars >>
    /\ TrackCancel

\* lines 150-152
Register(i) ==
    /\ ~panicked
    /\ pc[i] = "reg"
    /\ mu = 0
    /\ deployProcess' = cmd[i]
    /\ view' = [view EXCEPT ![i] = Len(pub)]
    /\ pc' = [pc EXCEPT ![i] = "start"]
    /\ pidReused' = FALSE
    /\ UNCHANGED << checkVars, mu, deployCtx, deployCancel, cancelled, pub,
                    pullCtx, cmd, td, cmdVars >>
    /\ TrackCancel

\* line 154, cmd.Run -> Start: a lifetime already cancelled makes Start
\* return its error without starting anything
StartCheck(i) ==
    /\ ~panicked
    /\ pc[i] = "start"
    /\ pc' = [pc EXCEPT ![i] =
                IF cmdCtx[cmd[i]] \in cancelled THEN "backoff" ELSE "spawn"]
    /\ UNCHANGED << checkVars, sharedVars, runVars, cmdVars, osVars >>
    /\ TrackCancel

\* line 154, cmd.Run -> Start: the process is created as the leader of a new
\* group (Setpgid, line 148), cmd.Process set, and the goroutine watching the
\* context started with its channel
StartSpawn(i) ==
    /\ ~panicked
    /\ pc[i] = "spawn"
    /\ proc' = [proc EXCEPT ![cmd[i]] = "alive"]
    /\ ctxResult' = [ctxResult EXCEPT ![cmd[i]] = "pending"]
    /\ pc' = [pc EXCEPT ![i] = "running"]
    /\ UNCHANGED << checkVars, sharedVars, runVars, nCmds, cmdCtx, owner,
                    kids, exit, waited, osVars >>
    /\ TrackCancel

\* line 154, cmd.Run -> Wait, up to the return of Process.Wait: with the
\* leader's status if this call reaped it, with an error if the teardown of
\* another runDeploy did; ProcessState is set to what it returned
RunWait(i) ==
    LET c == cmd[i]
        clean == proc[c] = "zombie" /\ exit[c] = "ok"
    IN
    /\ ~panicked
    /\ pc[i] = "running"
    /\ proc[c] \in {"zombie", "reaped"}
    /\ pc' = [pc EXCEPT ![i] = IF clean THEN "recvOk" ELSE "recvErr"]
    /\ proc' = [proc EXCEPT ![c] = "reaped"]
    /\ exit' = [exit EXCEPT ![c] = "-"]
    /\ waited' = [waited EXCEPT ![c] = (proc[c] = "zombie")]
    /\ UNCHANGED << checkVars, sharedVars, runVars, nCmds, cmdCtx, owner,
                    kids, ctxResult, osVars >>
    /\ TrackCancel

\* (mutant of RunDone: a finished deploy unregisters its handle)
RunDoneClearsHandle(i) ==
    /\ pc' = [pc EXCEPT ![i] = "done"]
    /\ view' = [view EXCEPT ![i] = 0]
    /\ cmd' = [cmd EXCEPT ![i] = 0]
    /\ deployProcess' = 0
    /\ UNCHANGED << mu, deployCtx, deployCancel, cancelled, pub >>

\* lines 160-161: cmd.Run returned nil; runDeploy logs and returns
RunDone(i) ==
    /\ pc' = [pc EXCEPT ![i] = "done"]
    /\ view' = [view EXCEPT ![i] = 0]
    /\ cmd' = [cmd EXCEPT ![i] = 0]
    /\ UNCHANGED sharedVars

\* lines 155-157: cmd.Run returned an error
RunFailed(i) ==
    /\ pc' = [pc EXCEPT ![i] = "backoff"]
    /\ UNCHANGED << sharedVars, view, cmd >>

\* lines 154-161, the rest of cmd.Run -> Wait: the receive from ctxResult,
\* which blocks for good when the teardown's Wait has taken the one value.
\* The value carries the context's error when the watching goroutine saw the
\* cancellation first, and Wait returns it in place of a clean exit.
RunRecv(i) ==
    LET c == cmd[i] IN
    /\ ~panicked
    /\ pc[i] \in {"recvOk", "recvErr"}
    /\ ctxResult[c] = "pending"
    /\ ctxResult' = [ctxResult EXCEPT ![c] = "taken"]
    /\ \/ pc[i] = "recvOk" /\ RunDone(i)
       \/ (pc[i] = "recvErr" \/ cmdCtx[c] \in cancelled) /\ RunFailed(i)
    /\ UNCHANGED << checkVars, pullCtx, td, nCmds, cmdCtx, owner, proc, kids,
                    exit, waited, osVars >>
    /\ TrackCancel

\* ------------------------------------------ the deploy command and the OS
\* the deploy command starts a descendant (a server) in its group
Fork(c) ==
    /\ proc[c] = "alive"
    /\ ~kids[c]
    /\ kids' = [kids EXCEPT ![c] = TRUE]
    /\ UNCHANGED << checkVars, sharedVars, pc, runVars, nCmds, cmdCtx, owner,
                    proc, exit, waited, ctxResult, osVars >>
    /\ TrackCancel

\* the descendants end on their own
KidsExit(c) ==
    /\ kids[c]
    /\ kids' = [kids EXCEPT ![c] = FALSE]
    /\ UNCHANGED << checkVars, sharedVars, pc, runVars, nCmds, cmdCtx, owner,
                    proc, exit, waited, ctxResult, osVars >>
    /\ TrackCancel

\* the deploy command (sh -c) exits: status 0 or not
LeaderExit(c, st) ==
    /\ proc[c] = "alive"
    /\ proc' = [proc EXCEPT ![c] = "zombie"]
    /\ exit' = [exit EXCEPT ![c] = st]
    /\ UNCHANGED << checkVars, sharedVars, pc, runVars, nCmds, cmdCtx, owner,
                    kids, waited, ctxResult, osVars >>
    /\ TrackCancel

\* line 145: the goroutine of exec.CommandContext kills the leader, and only
\* the leader, once the lifetime the command is bound to is cancelled
WatchCtxKill(c) ==
    /\ proc[c] = "alive"
    /\ cmdCtx[c] \in cancelled
    /\ proc' = [proc EXCEPT ![c] = "zombie"]
    /\ exit' = [exit EXCEPT ![c] = "killed"]
    /\ UNCHANGED << checkVars, sharedVars, pc, runVars, nCmds, cmdCtx, owner,
                    kids, waited, ctxResult, osVars >>
    /\ TrackCancel

\* the OS gives the pid of a reaped leader to a new process; it matters for
\* the pid line 121 looks up, the registered handle's
PidReuse(c) ==
    /\ c = deployProcess
    /\ proc[c] = "reaped"
    /\ ~pidReused
    /\ pidReused' = TRUE
    /\ UNCHANGED << checkVars, sharedVars, pc, runVars, cmdVars >>
    /\ TrackCancel

\* ----------------------------------------------------------- specification
RunDeploy(i) ==
    \/ Lock(i)
    \/ Kill(i)
    \/ WaitPrev(i)
    \/ TdRecv(i)
    \/ Pause(i)
    \/ Publish(i)
    \/ TopTest(i)
    \/ BackoffEnd(i)
    \/ PullStart(i)
    \/ \E ok \in BOOLEAN : PullEnd(i, ok)
    \/ MkCmd(i)
    \/ Register(i)
    \/ StartCheck(i)
    \/ StartSpawn(i)
    \/ RunWait(i)
    \/ RunRecv(i)

Environment(c) ==
    \/ Fork(c)
    \/ KidsExit(c)
    \/ \E st \in {"ok", "fail"} : LeaderExit(c, st)
    \/ WatchCtxKill(c)
    \/ PidReuse(c)

Next ==
    \/ Poll
    \/ \E i \in Runs : RunDeploy(i)
    \/ \E c \in Cmds : Environment(c)

Spec == Init /\ [][Next]_vars


\* ------------------------------------------------------------------ claims
\* the lifetimes line 128 has created
Published == {pub[k] : k \in 1..Len(pub)}

\* a later runDeploy has cancelled i's lifetime and published its own
Superseded(i) == i \in Published /\ deployCtx # i

\* C1: at most one deployment process tree launched by runDeploy is alive at
\* any instant.
C1_AtMostOneTreeAlive ==
    Cardinality({c \in Cmds : TreeAlive(c)}) <= 1

\* C2: once a later runDeploy has published its lifetime, an earlier
\* runDeploy starts no further git pull, starts no further deploy command,
\* and leaves the select at the top of its loop only by returning.
C2_SupersededRunnerStops ==
    [][\A i \in Runs :
         Superseded(i) =>
            /\ pc'[i] = "pulling" => pc[i] = "pulling"
            /\ pc'[i] = "spawn" => pc[i] = "spawn"
            /\ (pc[i] \in {"top", "backoff"} /\ pc'[i] # pc[i])
                  => pc'[i] = "cancelled"]_vars

\* C3: when a teardown of a previously launched tree has finished and the
\* new lifetime is about to be published, no process of that tree, leader or
\* descendant, is alive.
C3_TeardownReclaimsTree ==
    \A j \in Runs :
       (pc[j] = "publish" /\ td[j].saw \in {"alive", "zombie", "reaped"})
          => ~TreeAlive(deployProcess)

\* C4: lastSHA changes, and one runDeploy is spawned, in exactly the check()
\* calls whose poll got a payload whose trimmed hash differs from lastSHA; a
\* failed poll or an equal hash changes nothing and spawns nothing.
C4_LastSHAFollowsPolls ==
    [][/\ (lastSHA' # lastSHA \/ spawned' # spawned) =>
             /\ poll'.outcome = "ok"
             /\ TrimSpace(poll'.sha) # lastSHA
             /\ lastSHA' = TrimSpace(poll'.sha)
             /\ spawned' = spawned + 1
             /\ pc[spawned'] = "idle" /\ pc'[spawned'] = "lock"
       /\ (poll' # poll /\ (poll'.outcome = "err"
                             \/ TrimSpace(poll'.sha) = lastSHA)) =>
             /\ lastSHA' = lastSHA
             /\ spawned' = spawned
       /\ (poll' # poll /\ poll'.outcome = "ok"
                        /\ TrimSpace(poll'.sha) # lastSHA) =>
             /\ lastSHA' = TrimSpace(poll'.sha)
             /\ spawned' = spawned + 1]_vars

\* a second change has been detected: the hash d after the hash a
C4_Witness ==
    /\ poll = [outcome |-> "ok", sha |-> <<"d", "\n">>]
    /\ lastSHA = <<"d">>
    /\ spawned = 2

\* C5: a runDeploy whose lifetime was cancelled while it was backing off
\* leaves that backoff only to return (Cancelled), never to pull again.
C5_CancelledBackoffReturns ==
    [][\A i \in Runs :
         (pc[i] = "backoff" /\ cancelAt[i] = "backoff")
            => pc'[i] \in {"backoff", "cancelled"}]_vars

\* C6: after a failed attempt a runDeploy whose lifetime is not cancelled
\* goes on to the next attempt and never returns; one whose lifetime is
\* cancelled makes no further attempt.
C6_RetriesUntilCancelled ==
    [][\A i \in Runs :
         (pc[i] = "backoff" /\ pc'[i] # "backoff")
            => pc'[i] = (IF i \in cancelled THEN "cancelled" ELSE "pull")]_vars

\* C7: after a backoff the next thing runDeploy does is git pull (or return),
\* and the deploy command is built and launched only out of a git pull that
\* succeeded in the same iteration.
C7_PullRedoneOnRetry ==
    [][\A i \in Runs :
         /\ (pc[i] = "backoff" /\ pc'[i] # "backoff")
               => pc'[i] \in {"pull", "cancelled"}
         /\ (pc[i] = "pull" /\ pc'[i] # "pull")
               => pc'[i] \in {"pulling", "backoff"}
         /\ (pc'[i] = "mkcmd" /\ pc[i] # "mkcmd")
               => pc[i] = "pulling"
         /\ (pc'[i] = "reg" /\ pc[i] # "reg")
               => pc[i] = "mkcmd"
         /\ (pc'[i] = "start" /\ pc[i] # "start")
               => pc[i] = "reg"
         /\ (pc'[i] = "spawn" /\ pc[i] # "spawn")
               => pc[i] = "start"
         /\ (pc'[i] = "running" /\ pc[i] # "running")
               => pc[i] = "spawn"]_vars

\* a runDeploy runs the deploy command it launched on a retry
C7_Witness ==
    \E i \in Runs, c \in Cmds :
        /\ pc[i] = "running"
        /\ owner[c] = i
        /\ c # cmd[i]

\* C8: a lifetime is created only by the holder of mu and after the cancel
\* function of the current one, if any, was called; at most one created
\* lifetime is uncancelled.
C8_OneLiveLifetime ==
    /\ Cardinality(Published \ cancelled) <= 1
    /\ \A j \in Runs :
          pc[j] = "publish" =>
             /\ mu = j
             /\ deployCancel # 0 => deployCancel \in cancelled

\* a second lifetime has replaced the first, which is cancelled
C8_Witness ==
    /\ Len(pub) = 2
    /\ pub[1] \in cancelled
    /\ pub[2] \notin cancelled

\* C9: a teardown that finds no handle, or a handle whose process was never
\* started, signals nothing and neither waits nor pauses; no runDeploy ends
\* without having published its lifetime, whatever the teardown found, a
\* leader already gone included.
C9_TeardownIdempotent ==
    /\ \A j \in Runs :
          (pc[j] = "publish" /\ td[j].saw \in {"nil", "unstarted"}) =>
             /\ td[j].sig = "none"
             /\ ~td[j].waited
             /\ ~td[j].paused
    /\ \A j \in Runs :
          (pc[j] = "publish" /\ td[j].saw = "reaped") =>
             td[j].sig # "group"
    /\ \A j \in Runs :
          mu = j => pc[j] \in {"kill", "wait", "tdrecv", "pause", "publish"}
    /\ \A j \in Runs : pc[j] \in Terminal => j \in Published

\* a teardown that found the leader gone and could not resolve its group is
\* about to publish the new lifetime
C9_Witness ==
    \E j \in Runs :
        /\ pc[j] = "publish"
        /\ td[j].saw = "reaped"
        /\ td[j].sig = "none"

\* C10: when the runDeploy of the cancelled lifetime had already returned
\* (Done or Cancelled) and the registered handle is its own, the teardown
\* signals no process.
C10_FinishedPrevUntouched ==
    \A j \in Runs :
       (/\ pc[j] \in {"wait", "pause", "publish"}
        /\ deployCtx # 0
        /\ cancelAt[deployCtx] \in Terminal
        /\ deployProcess # 0
        /\ owner[deployProcess] = deployCtx)
          => td[j].sig = "none"

\* C11: the supervisor loop never stops and never waits for a deploy: in
\* every state, whoever holds mu and wherever the runDeploy goroutines are,
\* main's goroutine can make its next call of check().
C11_CheckAlwaysInvocable == ENABLED Poll

\* C12: every step that reads or writes lastSHA, deployCtx, deployCancel or
\* deployProcess is taken by the goroutine holding mu: a runDeploy reads
\* deployCtx (select, git pull, CommandContext) and writes the globals only
\* as the holder, and lastSHA is written only while mu is held for main's
\* goroutine (neither free nor held by a runDeploy).
C12_SharedAccessUnderMu ==
    [][/\ \A i \in Runs :
            (pc[i] \in {"top", "backoff", "pull", "mkcmd"} /\ pc'[i] # pc[i])
               => mu = i
       /\ \A i \in Runs :
            (pc[i] = "publish" /\ pc'[i] # pc[i]) => mu = i
       /\ lastSHA' # lastSHA => mu \notin {0} \cup Runs]_vars

\* C13: no runDeploy waits for a process, receives from a channel or sleeps
\* while it holds mu.
C13_NoBlockingUnderMu ==
    \A j \in Runs : mu = j => pc[j] \notin {"wait", "tdrecv", "pause"}

\* C14: a runDeploy whose lifetime is cancelled while its git pull runs or
\* while it is inside cmd.Run leaves the pull, or cmd.Run, for Cancelled; and
\* one that comes to git pull with its lifetime cancelled returns without
\* pulling.
C14_CancelledMidStepReturns ==
    [][\A i \in Runs :
         /\ (/\ pc[i] \in {"pulling", "recvOk", "recvErr"}
             /\ cancelAt[i] = pc[i]
             /\ pc'[i] # pc[i])
               => pc'[i] = "cancelled"
         /\ (pc[i] = "pull" /\ i \in cancelled /\ pc'[i] # pc[i])
               => pc'[i] = "cancelled"]_vars

\* the statements of lines 114-129, which runDeploy executes holding mu
InTeardown == {"kill", "wait", "tdrecv", "pause", "publish"}

\* C15: a runDeploy takes the steps cancel, group kill, wait for the leader,
\* pause, publication in this order and under one holding of mu; when it
\* found a started process it publishes only after the wait has returned
\* with the leader reaped and the pause is over; and it neither pulls nor
\* launches before it has published.
C15_TeardownOrder ==
    [][\A j \in Runs :
         /\ (pc'[j] = "kill" /\ pc[j] # "kill")
               => (/\ pc[j] = "lock"
                   /\ mu = 0 /\ mu' = j
                   /\ deployCancel # 0 => deployCancel \in cancelled')
         /\ (pc'[j] = "wait" /\ pc[j] # "wait") => pc[j] = "kill"
         /\ (pc'[j] = "tdrecv" /\ pc[j] # "tdrecv") => pc[j] = "wait"
         /\ (pc'[j] = "pause" /\ pc[j] # "pause")
               => pc[j] \in {"wait", "tdrecv"}
         /\ (pc'[j] = "publish" /\ pc[j] # "publish")
               => pc[j] \in {"kill", "pause"}
         /\ (pc'[j] = "publish"
                /\ td'[j].saw \in {"alive", "zombie", "reaped"})
               => (/\ td'[j].waited
                   /\ td'[j].paused
                   /\ proc'[deployProcess'] = "reaped")
         /\ pc'[j] \in InTeardown => mu' = j
         /\ (pc[j] \in InTeardown /\ pc'[j] \in InTeardown) => mu = j
         /\ j \notin Published'
               => (/\ pc'[j] \in {"idle", "lock"} \cup InTeardown
                   /\ pullCtx'[j] = 0
                   /\ cmd'[j] = 0)]_vars

\* a teardown that found the previous leader running has killed its group,
\* waited and paused, and is about to publish
C15_Witness ==
    \E j \in Runs :
        /\ pc[j] = "publish"
        /\ td[j] = [saw |-> "alive", sig |-> "group", waited |-> TRUE,
                    paused |-> TRUE]

\* C16: every tree with a process alive is the one deployProcess references,
\* and a runDeploy starts its command only when it has registered it.
C16_AliveTreeIsRegistered ==
    /\ \A c \in Cmds : TreeAlive(c) => deployProcess = c
    /\ \A i \in Runs :
          pc[i] \in {"start", "spawn"} => cmd[i] \in Cmds

\* C17: Done is reached only by the return of a cmd.Run that collected exit
\* status 0, and it is reached then unless the command's context was
\* cancelled meanwhile; the step to Done changes none of lastSHA, the
\* lifetime, its cancel function, the cancelled lifetimes and the registered
\* handle; and a runDeploy that is Done takes no further step.
C17_DoneIsFinal ==
    [][\A i \in Runs :
         /\ pc[i] = "done" => pc'[i] = "done"
         /\ (pc'[i] = "done" /\ pc[i] # "done")
               => (/\ pc[i] = "recvOk"
                   /\ lastSHA' = lastSHA
                   /\ deployCtx' = deployCtx
                   /\ deployCancel' = deployCancel
                   /\ deployProcess' = deployProcess
                   /\ cancelled' = cancelled)
         /\ (/\ pc[i] = "recvOk"
             /\ pc'[i] # pc[i]
             /\ cmdCtx[cmd[i]] \notin cancelled)
               => pc'[i] = "done"]_vars

\* a runDeploy is Done, and its lifetime and its handle are still the
\* current ones
C17_Witness ==
    \E i \in Runs :
        /\ pc[i] = "done"
        /\ deployCtx = i
        /\ deployProcess # 0
        /\ owner[deployProcess] = i

\* C18: the context a runDeploy binds its git pull and its deploy command to
\* is the one it created itself.
C18_OwnLifetimeOnly ==
    /\ \A i \in Runs : pullCtx[i] \in {0, i}
    /\ \A c \in Cmds : cmdCtx[c] \in {0, owner[c]}

\* C19: no holder of mu is blocked for good: the Wait of line 125 is never
\* left receiving from a channel nobody will send on again.
C19_TeardownWaitReturns ==
    \A j \in Runs :
        ~(pc[j] = "tdrecv" /\ ctxResult[deployProcess] = "taken")

\* C20: while mu is free the lifetime in deployCtx, if any, is not cancelled,
\* and a lifetime is cancelled only by the step that takes mu for lines
\* 114-129.
C20_NoCancelledLifetimeVisible ==
    [][/\ (mu' = 0 /\ deployCtx' # 0) => deployCtx' \notin cancelled'
       /\ cancelled' # cancelled
             => (/\ mu = 0
                 /\ mu' \in Runs
                 /\ pc'[mu'] = "kill"
                 /\ cancelled' = cancelled \cup {deployCtx})]_vars

\* mu is free again after the second runDeploy cancelled the first one's
\* lifetime and stored its own
C20_Witness ==
    /\ mu = 0
    /\ Len(pub) = 2
    /\ deployCtx = pub[2]
    /\ cancelled = {pub[1]}

=============================================================================
